---- MODULE Spec2Model ----
(***************************************************************************)
(* The two tutorial notebooks of optimum-transformers-optimizations-gpu,   *)
(* as one state machine: a kernel namespace, the onnx/ directory, the      *)
(* pipelines, the evaluation loop and measure_latency, executed cell by    *)
(* cell and statement by statement in top-to-bottom order.                 *)
(*                                                                         *)
(* Notebook 1 is src/notebook.ipynb lines 1-496 (DistilBERT, fp16), and    *)
(* notebook 2 is lines 498-1037 (RoBERTa, graph optimisation + dynamic     *)
(* quantisation).                                                          *)
(***************************************************************************)
EXTENDS Integers, Sequences, FiniteSets, TLC

VARIABLES
    nb,            \* which notebook runs: 1 or 2
    runAll,        \* TRUE: "Run All" (stop at the first error); FALSE: cell by cell
    hubHasOpt,     \* the hub repository model_id holds a file model-optimized.onnx
    cell,          \* index of the current code cell
    stmt,          \* index of the current statement in the cell
    pc,            \* "stmt", the positions of the two loops, "done" or "halted"
    bound,         \* the names bound in the kernel namespace
    err,           \* the errors raised so far: sequence of [ln, kind]
    setup,         \* the setup assertions evaluated so far: sequence of BOOLEAN
    files,         \* onnx/<file> -> content (a sequence of transformation tags)
    written,       \* the files of onnx/ written by this run
    reads,         \* successful reads of model files: set of [ln, file, fresh]
    modelVar,      \* value of the variable model: [dir, file, content]
    pipes,         \* pipeline variable -> the model value it wraps
    optConfig,     \* value of optimization_config
    exported,      \* the locations optimizer.export wrote: set of [dir, file]
    metricName,    \* value of metric
    dataset,       \* value of eval_dataset: sequence of examples
    evalIdx,       \* examples handed to evaluate so far
    qaLog,         \* pipeline queries made by evaluate: sequence of [pipe, ex, q, c]
    result,        \* rows returned by evaluate
    computed,      \* metric.compute calls: sequence of [var, predIds, refIds]
    accOut,        \* the printed retained-accuracy lines
    payload,       \* value of (question, context) resp. payload
    pipeArg,       \* measure_latency: the parameter pipe
    target,        \* measure_latency: the variable the result is assigned to
    prof,          \* the latency profile of the pipeline being measured
    i,             \* measure_latency: loop counter
    latencies,     \* measure_latency: latencies
    start_time,    \* measure_latency: start_time
    now,           \* the clock read by perf_counter()
    warmCalls,     \* pipe calls made by the warm-up loop of this measurement
    timedCalls,    \* pipe calls made by the timed loop of this measurement
    inWindow,      \* pipe calls since start_time was taken
    stats,         \* measure_latency: [n, avg, std, p95] of the current call
    measured,      \* the results bound: variable -> [n, avg, std, p95]
    seenPayloads,  \* the payloads the pipelines received in measure_latency
    improvement,   \* the printed improvement factors (hundredths)
    inFlight,      \* the pipelines executing a call that has not returned yet
    calls          \* pipeline -> the calls measure_latency made that returned

vars == <<nb, runAll, hubHasOpt, cell, stmt, pc, bound, err, setup, files,
          written, reads, modelVar, pipes, optConfig, exported, metricName,
          dataset, evalIdx, qaLog, result, computed, accOut, payload, pipeArg,
          target, prof, i, latencies, start_time, now, warmCalls, timedCalls,
          inWindow, stats, measured, seenPayloads, improvement, inFlight,
          calls>>

----------------------------------------------------------------------------
(* Bounds of the model *)

\* examples in the validation split (10570 resp. 11873 in the real datasets)
NumExamples == 3
\* rows kept by eval_dataset.select(range(1000)), scaled with NumExamples
SubsetSize == 2
\* latency profiles a pipeline can show (see Duration)
NumProfiles == 3

(* Program constants *)

\* for _ in range(10)
WarmUpRuns == 10
\* for _ in range(300)
TimedRuns == 300
\* np.percentile(latencies, 95)
Percentile == 95
\* 1000 * ...: seconds to milliseconds
MsPerSecond == 1000

----------------------------------------------------------------------------
(* The program text: each code cell is a sequence of statements            *)
(* [ln, op, uses, binds, a]: the source line, the operation, the names the *)
(* statement reads before it acts, the names it binds when it completes,   *)
(* and the operation's literal arguments.                                  *)

S(ln, op, uses, binds, a) ==
    [ln |-> ln, op |-> op, uses |-> uses, binds |-> binds, a |-> a]

ModelFiles == {"model.onnx", "model-optimized.onnx", "model-quantized.onnx"}

PipeNames == {"vanilla_qa", "optimized_qa", "trfs_qa", "vanilla_clx"}

ResultNames == {"vanilla_model", "optimized_model", "quantized_model"}

\* the text of context / question (notebook 1) and of payload (notebook 2)
PayloadQA == <<"As what is Philipp working?", "Hello, my name is Philipp ...">>
PayloadText == <<"Hello my name is Philipp. I am getting in touch ...">>

NB1 == <<
  \* %pip install "optimum[onnxruntime-gpu]==1.3.0" --upgrade
  << S(45, "lib", {}, {}, <<>>) >>,
  \* the setup assertions
  << S(61, "import", {}, {"get_available_providers", "get_device"}, <<>>),
     S(62, "import", {}, {"onnxruntime"}, <<>>),
     S(65, "assert_cuda", {"get_available_providers"}, {}, <<>>),
     S(66, "assert_device", {"get_device"}, {}, <<>>),
     S(69, "assert_version", {"onnxruntime"}, {}, <<>>) >>,
  \* convert to ONNX and save
  << S(121, "import", {}, {"ORTModelForQuestionAnswering"}, <<>>),
     S(122, "import", {}, {"AutoTokenizer"}, <<>>),
     S(123, "import", {}, {"Path"}, <<>>),
     S(126, "assign", {}, {"model_id"}, <<>>),
     S(127, "assign", {"Path"}, {"onnx_path"}, <<>>),
     S(130, "from_transformers", {"ORTModelForQuestionAnswering", "model_id"},
            {"model"}, <<>>),
     S(131, "lib", {"AutoTokenizer", "model_id"}, {"tokenizer"}, <<>>),
     S(134, "save_model", {"model", "onnx_path"}, {}, <<"model.onnx">>),
     S(135, "lib", {"tokenizer", "onnx_path"}, {}, <<>>) >>,
  \* the payload
  << S(151, "payload", {}, {"context"}, <<>>),
     S(152, "payload", {}, {"question"}, <<>>) >>,
  \* the baseline pipeline
  << S(177, "import", {}, {"pipeline"}, <<>>),
     S(179, "pipeline", {"pipeline", "model", "tokenizer"}, {"vanilla_qa"},
            <<"vanilla_qa", "model">>),
     S(181, "lib", {"vanilla_qa"}, {}, <<>>),
     S(182, "lib", {"vanilla_qa", "question", "context"}, {}, <<>>) >>,
  \* ORTOptimizer
  << S(245, "import", {}, {"ORTOptimizer"}, <<>>),
     S(246, "import", {}, {"OptimizationConfig"}, <<>>),
     S(249, "lib", {"ORTOptimizer", "model_id", "model"}, {"optimizer"}, <<>>),
     S(250, "opt_config", {"OptimizationConfig"}, {"optimization_config"},
            <<"level99", "gpu", "fp16">>),
     S(256, "optimize", {"optimizer", "onnx_path", "optimization_config"}, {},
            <<"model.onnx", "model-optimized.onnx">>) >>,
  \* load the optimized model
  << S(284, "import", {}, {"pipeline"}, <<>>),
     S(287, "load_model", {"ORTModelForQuestionAnswering", "onnx_path"},
            {"model"}, <<"onnx_path", "model-optimized.onnx">>),
     S(290, "pipeline", {"pipeline", "model", "tokenizer"}, {"optimized_qa"},
            <<"optimized_qa", "model">>),
     S(291, "lib", {"optimized_qa", "question", "context"}, {}, <<>>) >>,
  \* the transformers pipeline
  << S(311, "import", {}, {"pipeline"}, <<>>),
     S(313, "pipeline", {"pipeline", "model_id"}, {"trfs_qa"},
            <<"trfs_qa", "model_id">>) >>,
  \* metric and dataset
  << S(331, "import", {}, {"load_metric", "load_dataset"}, <<>>),
     S(333, "load_metric", {"load_metric"}, {"metric"}, <<"squad_v2">>),
     S(334, "load_metric", {"load_metric"}, {"metric"}, <<"squad">>),
     S(335, "load_dataset", {"load_dataset"}, {"eval_dataset"}, <<"squad">>) >>,
  \* the accuracy evaluation
  << S(372, "def", {}, {"evaluate"}, <<>>),
     S(381, "map", {"eval_dataset", "evaluate"}, {"result"}, <<>>),
     S(383, "compute", {"metric", "result"}, {"default_acc"},
            <<"default_acc", "default">>),
     S(384, "compute", {"metric", "result"}, {"optimized"},
            <<"optimized", "optimized">>),
     S(386, "lib", {"default_acc"}, {}, <<>>),
     S(387, "lib", {"optimized"}, {}, <<>>),
     S(388, "print_acc", {"optimized", "default_acc"}, {}, <<>>) >>,
  \* the latency measurement
  << S(415, "import", {}, {"perf_counter"}, <<>>),
     S(416, "import", {}, {"np"}, <<>>),
     S(418, "payload", {}, {"context"}, <<>>),
     S(419, "payload", {}, {"question"}, <<>>),
     S(421, "def", {}, {"measure_latency"}, <<>>),
     S(438, "measure", {"measure_latency", "vanilla_qa"}, {"vanilla_model"},
            <<"vanilla_model", "vanilla_qa">>),
     S(439, "measure", {"measure_latency", "optimized_qa"}, {"optimized_model"},
            <<"optimized_model", "optimized_qa">>),
     S(441, "lib", {"vanilla_model"}, {}, <<>>),
     S(442, "lib", {"optimized_model"}, {}, <<>>),
     S(443, "print_improvement", {"vanilla_model", "optimized_model"}, {},
            <<"vanilla_model", "optimized_model">>) >>
>>

NB2 == <<
  \* !pip install "optimum[onnxruntime-gpu]==1.2.3"
  << S(543, "lib", {}, {}, <<>>) >>,
  \* convert to ONNX and save
  << S(578, "import", {}, {"ORTModelForQuestionAnswering"}, <<>>),
     S(579, "import", {}, {"AutoTokenizer"}, <<>>),
     S(580, "import", {}, {"Path"}, <<>>),
     S(583, "assign", {}, {"model_id"}, <<>>),
     S(584, "assign", {"Path"}, {"onnx_path"}, <<>>),
     S(587, "from_transformers", {"ORTModelForQuestionAnswering", "model_id"},
            {"model"}, <<>>),
     S(588, "lib", {"AutoTokenizer", "model_id"}, {"tokenizer"}, <<>>),
     S(591, "save_model", {"model", "onnx_path"}, {}, <<"model.onnx">>),
     S(592, "lib", {"tokenizer", "onnx_path"}, {}, <<>>) >>,
  \* the payload
  << S(608, "payload", {}, {"context"}, <<>>),
     S(609, "payload", {}, {"question"}, <<>>),
     S(610, "lib", {"tokenizer", "question", "text"}, {"inputs"}, <<>>) >>,
  \* the baseline pipeline
  << S(626, "import", {}, {"pipeline"}, <<>>),
     S(628, "pipeline", {"pipeline", "model", "tokenizer"}, {"vanilla_qa"},
            <<"vanilla_qa", "model">>),
     S(629, "lib", {"vanilla_qa", "question", "context"}, {}, <<>>) >>,
  \* ORTOptimizer
  << S(665, "import", {}, {"ORTOptimizer"}, <<>>),
     S(666, "import", {}, {"OptimizationConfig"}, <<>>),
     S(669, "lib", {"ORTOptimizer", "model_id", "task"}, {"optimizer"}, <<>>),
     S(670, "opt_config", {"OptimizationConfig"}, {"optimization_config"},
            <<"level99">>),
     S(673, "optimize", {"optimizer", "onnx_path", "optimization_config"}, {},
            <<"model.onnx", "model-optimized.onnx">>) >>,
  \* load the optimized model
  << S(693, "import", {}, {"pipeline"}, <<>>),
     S(696, "load_model", {"ORTModelForQuestionAnswering", "model_id"},
            {"model"}, <<"model_id", "model-optimized.onnx">>),
     S(699, "pipeline", {"pipeline", "model", "tokenizer"}, {"optimized_qa"},
            <<"optimized_qa", "model">>),
     S(700, "lib", {"optimized_qa", "question", "context"}, {}, <<>>) >>,
  \* ORTQuantizer
  << S(733, "import", {}, {"ORTQuantizer"}, <<>>),
     S(734, "import", {}, {"AutoQuantizationConfig"}, <<>>),
     S(737, "lib", {"ORTQuantizer", "model_id", "model"}, {"dynamic_quantizer"},
            <<>>),
     S(738, "lib", {"AutoQuantizationConfig"}, {"dqconfig"}, <<>>),
     S(741, "quantize", {"dynamic_quantizer", "onnx_path", "dqconfig"},
            {"model_quantized_path"},
            <<"model-optimized.onnx", "model-quantized.onnx">>) >>,
  \* the model sizes
  << S(770, "import", {}, {"os"}, <<>>),
     S(773, "getsize", {"os", "onnx_path"}, {"size"}, <<"model-optimized.onnx">>),
     S(774, "getsize", {"os", "onnx_path"}, {"quantized_model"},
            <<"model-quantized.onnx">>),
     S(776, "lib", {"size"}, {}, <<>>),
     S(777, "lib", {"quantized_model"}, {}, <<>>) >>,
  \* load the optimized model again
  << S(823, "import", {}, {"ORTModelForSequenceClassification"}, <<>>),
     S(824, "import", {}, {"pipeline", "AutoTokenizer"}, <<>>),
     S(826, "load_model", {"ORTModelForQuestionAnswering", "model_id"},
            {"model"}, <<"model_id", "model-optimized.onnx">>),
     S(827, "lib", {"AutoTokenizer", "onnx_path"}, {"tokenizer"}, <<>>),
     S(830, "pipeline", {"pipeline", "model", "tokenizer"}, {"optimized_qa"},
            <<"optimized_qa", "model">>),
     S(831, "lib", {"optimized_qa", "question", "context"}, {}, <<>>) >>,
  \* metric and dataset
  << S(864, "import", {}, {"load_metric", "load_dataset"}, <<>>),
     S(866, "load_metric", {"load_metric"}, {"metric"}, <<"squad_v2">>),
     S(867, "load_dataset", {"load_dataset"}, {"eval_dataset"}, <<"squad_v2">>),
     S(871, "select", {"eval_dataset"}, {"eval_dataset"}, <<>>) >>,
  \* the accuracy evaluation
  << S(887, "def", {}, {"evaluate"}, <<>>),
     S(896, "map", {"eval_dataset", "evaluate"}, {"result"}, <<>>) >>,
  << S(915, "compute", {"metric", "result"}, {"default_acc"},
            <<"default_acc", "default">>),
     S(916, "compute", {"metric", "result"}, {"optimized"},
            <<"optimized", "optimized">>),
     S(918, "lib", {"default_acc"}, {}, <<>>),
     S(919, "lib", {"optimized"}, {}, <<>>),
     S(920, "lib", {"quantized"}, {}, <<>>),
     S(922, "lib", {}, {}, <<>>),
     S(923, "lib", {"results"}, {}, <<>>),
     S(924, "print_acc", {"results"}, {}, <<"0.925">>) >>,
  \* the latency measurement
  << S(952, "import", {}, {"perf_counter"}, <<>>),
     S(953, "import", {}, {"np"}, <<>>),
     S(955, "payload", {}, {"payload"}, <<>>),
     S(956, "lib", {"tokenizer", "payload"}, {}, <<>>),
     S(958, "def", {}, {"measure_latency"}, <<>>),
     S(975, "pipeline", {"pipeline", "model_id"}, {"vanilla_clx"},
            <<"vanilla_clx", "model_id">>),
     S(978, "measure", {"measure_latency", "vanilla_clx"}, {"vanilla_model"},
            <<"vanilla_model", "vanilla_clx">>),
     S(979, "measure", {"measure_latency", "clx"}, {"quantized_model"},
            <<"quantized_model", "clx">>),
     S(981, "lib", {"vanilla_model"}, {}, <<>>),
     S(982, "lib", {"quantized_model"}, {}, <<>>),
     S(983, "print_improvement", {"vanilla_model", "quantized_model"}, {},
            <<"vanilla_model", "quantized_model">>) >>
>>

Notebook(n) == IF n = 1 THEN NB1 ELSE NB2

\* the names the body of evaluate reads: the two pipelines it queries
EvaluatePipes(n) ==
    IF n = 1 THEN <<"vanilla_qa", "optimized_qa">>
             ELSE <<"optimum_qa", "opt_optimum_qa">>

\* the names the pipe call in measure_latency reads besides pipe
PayloadNames(n) == IF n = 1 THEN {"question", "context"} ELSE {"payload"}

----------------------------------------------------------------------------
(* Values *)

\* a model object: where it was loaded from and what the graph is
NoModel == [dir |-> "", file |-> "", content |-> <<>>]

\* model = ORTModelForQuestionAnswering.from_pretrained(model_id, from_transformers=True)
ConvertedModel == [dir |-> "model_id", file |-> "transformers", content |-> <<{"onnx"}>>]

\* pipeline("...", model=model_id): the PyTorch model of the hub repository
TorchModel == [dir |-> "model_id", file |-> "transformers", content |-> <<{"torch"}>>]

NoFile == <<>>

\* a file left in onnx/ by an earlier run
StaleFile == <<{"stale"}>>

NoPayload == [question |-> "", context |-> "", payload |-> ""]

PayloadValue(name) ==
    CASE name = "question" -> PayloadQA[1]
      [] name = "context"  -> PayloadQA[2]
      [] OTHER             -> PayloadText[1]

NoStats == [n |-> 0, avg |-> <<0, 1>>, std |-> <<0, 0, 1>>, p95 |-> 0]

\* what the setup assertions saw, and whether each condition held
NoSetup == [providers |-> {}, device |-> "", version |-> <<>>, held |-> <<>>]

----------------------------------------------------------------------------
(* Control: the position in the notebook *)

Cells == Notebook(nb)

Cur == Cells[cell][stmt]

AtStmt(op) == pc = "stmt" /\ Cur.op = op /\ Cur.uses \subseteq bound

Pos(c, s, p) == [cell |-> c, stmt |-> s, pc |-> p]

\* after a statement that completed
NextPos ==
    IF stmt < Len(Cells[cell]) THEN Pos(cell, stmt + 1, "stmt")
    ELSE IF cell < Len(Cells) THEN Pos(cell + 1, 1, "stmt")
    ELSE Pos(cell, stmt, "done")

\* after an uncaught exception: Run All stops; run cell by cell, the rest of
\* the cell is skipped and the next cell is executed
ErrorPos ==
    IF runAll THEN Pos(cell, stmt, "halted")
    ELSE IF cell < Len(Cells) THEN Pos(cell + 1, 1, "stmt")
    ELSE Pos(cell, stmt, "done")

Goto(p) == cell' = p.cell /\ stmt' = p.stmt /\ pc' = p.pc

\* the statement completes and binds its targets
Completes == bound' = bound \cup Cur.binds /\ Goto(NextPos) /\ err' = err

\* line ln raises
RaiseAt(ln, kind) ==
    /\ err' = Append(err, [ln |-> ln, kind |-> kind])
    /\ bound' = bound
    /\ Goto(ErrorPos)

\* the statement raises
Raise(kind) == RaiseAt(Cur.ln, kind)

envVars == <<nb, runAll, hubHasOpt>>
fileVars == <<files, written, reads, exported>>
modelVars == <<modelVar, pipes, optConfig>>
evalVars == <<metricName, dataset, evalIdx, qaLog, result, computed, accOut>>
loopVars == <<pipeArg, target, prof, i, latencies, start_time, warmCalls,
              timedCalls, inWindow, stats, inFlight>>
latVars == <<loopVars, now, measured, seenPayloads, improvement, calls>>

----------------------------------------------------------------------------
Init ==
    /\ nb \in {1, 2}
    /\ runAll \in BOOLEAN
    /\ hubHasOpt \in (IF nb = 1 THEN {FALSE} ELSE BOOLEAN)
    /\ cell = 1 /\ stmt = 1 /\ pc = "stmt"
    /\ bound = {}
    /\ err = <<>>
    /\ setup = NoSetup
    /\ files \in [ModelFiles -> {NoFile, StaleFile}]
    /\ written = {}
    /\ reads = {}
    /\ modelVar = NoModel
    /\ pipes = [p \in PipeNames |-> NoModel]
    /\ optConfig = {}
    /\ exported = {}
    /\ metricName = ""
    /\ dataset = <<>>
    /\ evalIdx = 0
    /\ qaLog = <<>>
    /\ result = <<>>
    /\ computed = <<>>
    /\ accOut = <<>>
    /\ payload = NoPayload
    /\ pipeArg = "" /\ target = "" /\ prof = 0 /\ i = 0
    /\ latencies = <<>>
    /\ start_time = 0
    /\ now = 0
    /\ warmCalls = 0 /\ timedCalls = 0 /\ inWindow = 0
    /\ stats = NoStats
    /\ measured = [r \in ResultNames |-> NoStats]
    /\ seenPayloads = {}
    /\ improvement = <<>>
    /\ inFlight = <<>>
    /\ calls = [p \in PipeNames |-> 0]

----------------------------------------------------------------------------
(* Statements without a loop *)

\* a name is read that no earlier statement has bound
NameError ==
    /\ pc = "stmt"
    /\ ~(Cur.uses \subseteq bound)
    /\ Raise("NameError")
    /\ UNCHANGED <<envVars, setup, fileVars, modelVars, evalVars, payload, latVars>>

\* an import, a plain assignment, a def, a print, a library call whose
\* effect is only the value it binds
Plain ==
    /\ pc = "stmt"
    /\ Cur.op \in {"lib", "import", "assign", "def"}
    /\ Cur.uses \subseteq bound
    /\ Completes
    /\ UNCHANGED <<envVars, setup, fileVars, modelVars, evalVars, payload, latVars>>

\* context = "..." / question = "..." / payload = "..." * 2
AssignPayload ==
    /\ AtStmt("payload")
    /\ payload' = [n \in DOMAIN payload |->
                     IF n \in Cur.binds THEN PayloadValue(n) ELSE payload[n]]
    /\ Completes
    /\ UNCHANGED <<envVars, setup, fileVars, modelVars, evalVars, latVars>>

----------------------------------------------------------------------------
(* The setup assertions (notebook 1) *)

\* what get_available_providers() can return
ProviderSets ==
    { {"CPUExecutionProvider"},
      {"CUDAExecutionProvider", "CPUExecutionProvider"} }

\* what get_device() can return
Devices == {"GPU", "CPU"}

\* the ONNX Runtime releases that can be installed
InstalledVersions == { <<1, 2, 0>>, <<1, 9, 0>>, <<1, 11, 1>>, <<1, 12, 0>> }

\* the code points of '.' and '0'
Dot == 46
Zero == 48

\* str(n) for n >= 0, as code points
RECURSIVE Digits(_)
Digits(n) ==
    IF n < 10 THEN << Zero + n >>
    ELSE Digits(n \div 10) \o << Zero + (n % 10) >>

\* onnxruntime.__version__ of release v: "major.minor.patch"
VersionString(v) ==
    Digits(v[1]) \o <<Dot>> \o Digits(v[2]) \o <<Dot>> \o Digits(v[3])

\* the literal "1.11.1"
MinVersionLiteral == <<49, 46, 49, 49, 46, 49>>

\* s > t for two Python str: code point by code point, a proper prefix is smaller
RECURSIVE StrGreater(_, _)
StrGreater(s, t) ==
    IF s = <<>> THEN FALSE
    ELSE IF t = <<>> THEN TRUE
    ELSE IF s[1] # t[1] THEN s[1] > t[1]
    ELSE StrGreater(Tail(s), Tail(t))

\* onnxruntime.__version__ > "1.11.1"
VersionCheck(v) == StrGreater(VersionString(v), MinVersionLiteral)

\* faulty variant: the assertion is not enforced
AssertThenIgnored(cond) == Completes

\* assert cond: continue if it holds, AssertionError otherwise
AssertThen(cond) == IF cond THEN Completes ELSE Raise("AssertionError")

AssertCuda ==
    /\ AtStmt("assert_cuda")
    /\ \E prov \in ProviderSets :
         LET cond == "CUDAExecutionProvider" \in prov IN
         /\ setup' = [setup EXCEPT !.providers = prov, !.held = Append(@, cond)]
         /\ AssertThen(cond)
    /\ UNCHANGED <<envVars, fileVars, modelVars, evalVars, payload, latVars>>

AssertDevice ==
    /\ AtStmt("assert_device")
    /\ \E dev \in Devices :
         LET cond == "GPU" = dev IN
         /\ setup' = [setup EXCEPT !.device = dev, !.held = Append(@, cond)]
         /\ AssertThen(cond)
    /\ UNCHANGED <<envVars, fileVars, modelVars, evalVars, payload, latVars>>

AssertVersion ==
    /\ AtStmt("assert_version")
    /\ \E v \in InstalledVersions :
         LET cond == VersionCheck(v) IN
         /\ setup' = [setup EXCEPT !.version = v, !.held = Append(@, cond)]
         /\ AssertThen(cond)
    /\ UNCHANGED <<envVars, fileVars, modelVars, evalVars, payload, latVars>>

----------------------------------------------------------------------------
(* Models, files of onnx/ and pipelines *)

\* model = ORTModelForQuestionAnswering.from_pretrained(model_id, from_transformers=True)
FromTransformers ==
    /\ AtStmt("from_transformers")
    /\ modelVar' = ConvertedModel
    /\ Completes
    /\ UNCHANGED <<envVars, setup, fileVars, pipes, optConfig, evalVars, payload,
                   latVars>>

\* model.save_pretrained(onnx_path): writes onnx_path / "model.onnx"
SaveModel ==
    /\ AtStmt("save_model")
    /\ files' = [files EXCEPT ![Cur.a[1]] = modelVar.content]
    /\ written' = written \cup {Cur.a[1]}
    /\ Completes
    /\ UNCHANGED <<envVars, setup, reads, exported, modelVars, evalVars, payload,
                   latVars>>

\* optimization_config = OptimizationConfig(...)
MakeOptConfig ==
    /\ AtStmt("opt_config")
    /\ optConfig' = {Cur.a[k] : k \in 1..Len(Cur.a)}
    /\ Completes
    /\ UNCHANGED <<envVars, setup, fileVars, modelVar, pipes, evalVars, payload,
                   latVars>>

\* a read of onnx_path / f at the current statement
ReadOf(f) == [ln |-> Cur.ln, file |-> f, fresh |-> f \in written]

\* faulty variant: the export writes its result over the file it read
ExportFileInPlace(tag) ==
    LET in == Cur.a[1]
    IN  IF files[in] = NoFile
        THEN Raise("FileNotFoundError") /\ UNCHANGED <<files, written, reads>>
        ELSE /\ files' = [files EXCEPT ![in] = Append(files[in], tag)]
             /\ written' = written \cup {in}
             /\ reads' = reads \cup {ReadOf(in)}
             /\ Completes

\* an export: reads onnx_path / a[1], writes onnx_path / a[2] with the input's
\* graph transformed by tag; the input must exist
ExportFile(tag) ==
    LET in == Cur.a[1]
        out == Cur.a[2]
    IN  IF files[in] = NoFile
        THEN Raise("FileNotFoundError") /\ UNCHANGED <<files, written, reads>>
        ELSE /\ files' = [files EXCEPT ![out] = Append(files[in], tag)]
             /\ written' = written \cup {out}
             /\ reads' = reads \cup {ReadOf(in)}
             /\ Completes

\* optimizer.export(onnx_model_path=..., onnx_optimized_model_output_path=...,
\*                  optimization_config=optimization_config)
OptimizerExport ==
    /\ AtStmt("optimize")
    /\ ExportFile(optConfig)
    /\ exported' = IF files[Cur.a[1]] = NoFile THEN exported
                   ELSE exported \cup {[dir |-> "onnx_path", file |-> Cur.a[2]]}
    /\ UNCHANGED <<envVars, setup, modelVars, evalVars, payload, latVars>>

\* dynamic_quantizer.export(onnx_model_path=..., onnx_quantized_model_output_path=...,
\*                          quantization_config=dqconfig)
QuantizerExport ==
    /\ AtStmt("quantize")
    /\ ExportFile({"avx512_vnni", "dynamic"})
    /\ UNCHANGED <<envVars, setup, exported, modelVars, evalVars, payload, latVars>>

\* os.path.getsize(onnx_path / f)
GetSize ==
    /\ AtStmt("getsize")
    /\ IF files[Cur.a[1]] = NoFile
       THEN Raise("FileNotFoundError") /\ reads' = reads
       ELSE reads' = reads \cup {ReadOf(Cur.a[1])} /\ Completes
    /\ UNCHANGED <<envVars, setup, files, written, exported, modelVars, evalVars,
                   payload, latVars>>

\* the location ORTModel.from_pretrained(d, file_name=f) reads: d is the
\* variable passed as first argument, onnx_path (the directory onnx/) or
\* model_id (a repository of the hub)
LoadLocation == [dir |-> Cur.a[1], file |-> Cur.a[2]]

\* model = ORTModelForQuestionAnswering.from_pretrained(d, file_name=f)
LoadModel ==
    /\ AtStmt("load_model")
    /\ LET loc == LoadLocation IN
       IF loc.dir = "onnx_path"
       THEN IF files[loc.file] = NoFile
            THEN Raise("FileNotFoundError") /\ UNCHANGED <<modelVar, reads>>
            ELSE /\ modelVar' = [dir |-> loc.dir, file |-> loc.file,
                                 content |-> files[loc.file]]
                 /\ reads' = reads \cup {ReadOf(loc.file)}
                 /\ Completes
       ELSE IF hubHasOpt
            THEN /\ modelVar' = [dir |-> loc.dir, file |-> loc.file,
                                 content |-> <<{"hub"}>>]
                 /\ reads' = reads
                 /\ Completes
            ELSE Raise("EntryNotFoundError") /\ UNCHANGED <<modelVar, reads>>
    /\ UNCHANGED <<envVars, setup, files, written, exported, pipes, optConfig,
                   evalVars, payload, latVars>>

\* p = pipeline(task, model=model, ...) resp. pipeline(task, model=model_id)
MakePipeline ==
    /\ AtStmt("pipeline")
    /\ pipes' = [pipes EXCEPT ![Cur.a[1]] =
                    IF Cur.a[2] = "model" THEN modelVar ELSE TorchModel]
    /\ Completes
    /\ UNCHANGED <<envVars, setup, fileVars, modelVar, optConfig, evalVars,
                   payload, latVars>>

----------------------------------------------------------------------------
(* The accuracy evaluation *)

\* example k of the validation split of dataset name
Example(name, k) ==
    [id |-> <<name, "id", k>>, question |-> <<name, "question", k>>,
     context |-> <<name, "context", k>>, answers |-> <<name, "answers", k>>]

\* load_dataset(name)["validation"]
Validation(name) == [k \in 1..NumExamples |-> Example(name, k)]

\* the lines of evaluate that query the two pipelines
EvaluateLines(n) == IF n = 1 THEN <<373, 374>> ELSE <<888, 889>>

\* metric = load_metric(name)
LoadMetric ==
    /\ AtStmt("load_metric")
    /\ metricName' = Cur.a[1]
    /\ Completes
    /\ UNCHANGED <<envVars, setup, fileVars, modelVars, dataset, evalIdx, qaLog,
                   result, computed, accOut, payload, latVars>>

\* eval_dataset = load_dataset(name)["validation"]
LoadDataset ==
    /\ AtStmt("load_dataset")
    /\ dataset' = Validation(Cur.a[1])
    /\ Completes
    /\ UNCHANGED <<envVars, setup, fileVars, modelVars, metricName, evalIdx,
                   qaLog, result, computed, accOut, payload, latVars>>

\* eval_dataset = eval_dataset.select(range(1000))
SelectSubset ==
    /\ AtStmt("select")
    /\ IF SubsetSize <= Len(dataset)
       THEN dataset' = SubSeq(dataset, 1, SubsetSize) /\ Completes
       ELSE dataset' = dataset /\ Raise("IndexError")
    /\ UNCHANGED <<envVars, setup, fileVars, modelVars, metricName, evalIdx,
                   qaLog, result, computed, accOut, payload, latVars>>

\* result = eval_dataset.map(evaluate): the call of map
MapStart ==
    /\ AtStmt("map")
    /\ pc' = "map"
    /\ evalIdx' = 0 /\ qaLog' = <<>> /\ result' = <<>>
    /\ UNCHANGED <<envVars, cell, stmt, bound, err, setup, fileVars, modelVars,
                   metricName, dataset, computed, accOut, payload, latVars>>

\* the query evaluate makes to pipeline p for example ex
Query(p, ex) == [pipe |-> p, ex |-> ex.id, question |-> ex.question,
                 context |-> ex.context]

\* the answer of the pipeline wrapping model m
Answer(m, ex) == <<m.content, ex.question, ex.context>>

\* the row evaluate returns for example ex
Row(ex, default, optimized) ==
    [reference |-> [id |-> ex.id, answers |-> ex.answers],
     default   |-> [id |-> ex.id, prediction_text |-> default],
     optimized |-> [id |-> ex.id, prediction_text |-> optimized]]

\* one call evaluate(example) made by map
EvaluateCall ==
    /\ pc = "map"
    /\ evalIdx < Len(dataset)
    /\ evalIdx' = evalIdx + 1
    /\ LET ex == dataset[evalIdx + 1]
           ps == EvaluatePipes(nb)
           ls == EvaluateLines(nb)
       IN  IF ps[1] \notin bound
           THEN /\ RaiseAt(ls[1], "NameError")
                /\ UNCHANGED <<qaLog, result>>
           ELSE IF ps[2] \notin bound
           THEN /\ RaiseAt(ls[2], "NameError")
                /\ qaLog' = Append(qaLog, Query(ps[1], ex))
                /\ result' = result
           ELSE /\ qaLog' = qaLog \o <<Query(ps[1], ex), Query(ps[2], ex)>>
                /\ result' = Append(result,
                                Row(ex, Answer(pipes[ps[1]], ex),
                                        Answer(pipes[ps[2]], ex)))
                /\ UNCHANGED <<cell, stmt, pc, bound, err>>
    /\ UNCHANGED <<envVars, setup, fileVars, modelVars, metricName, dataset,
                   computed, accOut, payload, latVars>>

\* map has handed every example to evaluate: result is bound
MapDone ==
    /\ pc = "map"
    /\ evalIdx = Len(dataset)
    /\ Completes
    /\ UNCHANGED <<envVars, setup, fileVars, modelVars, evalVars, payload, latVars>>

\* the ids of column col of result
Ids(col) == [k \in 1..Len(result) |-> result[k][col].id]

\* x = metric.compute(predictions=result[col], references=result["reference"])
MetricCompute ==
    /\ AtStmt("compute")
    /\ computed' = Append(computed,
                     [var |-> Cur.a[1], metric |-> metricName,
                      predictions |-> Ids(Cur.a[2]), references |-> Ids("reference")])
    /\ Completes
    /\ UNCHANGED <<envVars, setup, fileVars, modelVars, metricName, dataset,
                   evalIdx, qaLog, result, accOut, payload, latVars>>

\* print(f"The ... model achieves {...}% accuracy of the fp32 model"): the
\* names the ratio is computed from, and the literals that stand in it
PrintAccuracy ==
    /\ AtStmt("print_acc")
    /\ accOut' = Append(accOut, [ln |-> Cur.ln, from |-> Cur.uses,
                                 literals |-> Cur.a])
    /\ Completes
    /\ UNCHANGED <<envVars, setup, fileVars, modelVars, metricName, dataset,
                   evalIdx, qaLog, result, computed, payload, latVars>>

----------------------------------------------------------------------------
(* measure_latency *)

\* the duration of the k-th call of a pipeline with latency profile p, in
\* ticks of the clock: a base latency, and a slower call every Period(p) calls
Period(p) == IF p % 2 = 1 THEN 19 + p ELSE 7

Duration(p, k) == (p + 1) + (IF k % Period(p) = 0 THEN 2 * p + 2 ELSE 0)

\* faulty variant: the optimized pipeline is given the question only
CallArgsPerPipeline ==
    IF nb = 1
    THEN IF pipeArg = "optimized_qa" THEN <<payload.question, "">>
         ELSE <<payload.question, payload.context>>
    ELSE <<payload.payload>>

\* the arguments of pipe(question=question, context=context) resp. pipe(payload)
CallArgs ==
    IF nb = 1 THEN <<payload.question, payload.context>> ELSE <<payload.payload>>

\* faulty variant: a call is made without waiting for the one in flight
PipeDispatchUnawaited ==
    /\ pc \in {"warmup", "call"}
    /\ pc = "warmup" => i < WarmUpRuns
    /\ PayloadNames(nb) \subseteq bound
    /\ inFlight' = Append(inFlight, pipeArg)
    /\ seenPayloads' = seenPayloads \cup {[pipe |-> pipeArg, args |-> CallArgs]}
    /\ UNCHANGED <<envVars, cell, stmt, pc, bound, err, setup, fileVars,
                   modelVars, evalVars, payload, pipeArg, target, prof, i,
                   latencies, start_time, warmCalls, timedCalls, inWindow,
                   stats, now, measured, improvement, calls>>

\* pipe(...) is called: the arguments are evaluated and the pipeline starts
\* pre-processing, inference and post-processing; the caller waits, so a call
\* is made only when none is in flight
PipeDispatch ==
    /\ pc \in {"warmup", "call"}
    /\ pc = "warmup" => i < WarmUpRuns
    /\ PayloadNames(nb) \subseteq bound
    /\ inFlight = <<>>
    /\ inFlight' = Append(inFlight, pipeArg)
    /\ seenPayloads' = seenPayloads \cup {[pipe |-> pipeArg, args |-> CallArgs]}
    /\ UNCHANGED <<envVars, cell, stmt, pc, bound, err, setup, fileVars,
                   modelVars, evalVars, payload, pipeArg, target, prof, i,
                   latencies, start_time, warmCalls, timedCalls, inWindow,
                   stats, now, measured, improvement, calls>>

\* the call of pipe returns: the clock has advanced by the call's duration
PipeCall ==
    /\ inFlight # <<>>
    /\ inFlight' = Tail(inFlight)
    /\ now' = now + Duration(prof, warmCalls + timedCalls + 1)
    /\ calls' = [calls EXCEPT ![inFlight[1]] = @ + 1]
    /\ inWindow' = inWindow + 1

\* x = measure_latency(p): the call, and latencies = []
MeasureStart ==
    /\ AtStmt("measure")
    /\ pc' = "warmup"
    /\ target' = Cur.a[1]
    /\ pipeArg' = Cur.a[2]
    /\ \E p \in 1..NumProfiles : prof' = p
    /\ latencies' = <<>>
    /\ i' = 0 /\ warmCalls' = 0 /\ timedCalls' = 0 /\ inWindow' = 0
    /\ UNCHANGED <<envVars, cell, stmt, bound, err, setup, fileVars, modelVars,
                   evalVars, payload, start_time, stats, now, measured,
                   seenPayloads, improvement, inFlight, calls>>

\* faulty variant: the warm-up calls are timed and recorded too
WarmUpCallRecorded ==
    /\ pc = "warmup"
    /\ i < WarmUpRuns
    /\ PipeCall
    /\ warmCalls' = warmCalls + 1
    /\ latencies' = Append(latencies, Duration(prof, warmCalls + timedCalls + 1))
    /\ i' = i + 1
    /\ UNCHANGED <<envVars, cell, stmt, pc, bound, err, setup, fileVars,
                   modelVars, evalVars, payload, pipeArg, target, prof,
                   start_time, timedCalls, stats, measured, seenPayloads,
                   improvement>>

\* for _ in range(10): _ = pipe(...)
WarmUpCall ==
    /\ pc = "warmup"
    /\ i < WarmUpRuns
    /\ PipeCall
    /\ warmCalls' = warmCalls + 1
    /\ i' = i + 1
    /\ UNCHANGED <<envVars, cell, stmt, pc, bound, err, setup, fileVars,
                   modelVars, evalVars, payload, pipeArg, target, prof,
                   latencies, start_time, timedCalls, stats, measured,
                   seenPayloads, improvement>>

\* faulty variant: the warm-up loop is left after its first call
WarmUpDoneEarly ==
    /\ pc = "warmup"
    /\ i = 1
    /\ inFlight = <<>>
    /\ pc' = "t_start"
    /\ i' = 0
    /\ UNCHANGED <<envVars, cell, stmt, bound, err, setup, fileVars, modelVars,
                   evalVars, payload, pipeArg, target, prof, latencies,
                   start_time, warmCalls, timedCalls, inWindow, stats, now,
                   measured, seenPayloads, improvement, inFlight, calls>>

\* the warm-up loop is exhausted
WarmUpDone ==
    /\ pc = "warmup"
    /\ i = WarmUpRuns
    /\ pc' = "t_start"
    /\ i' = 0
    /\ UNCHANGED <<envVars, cell, stmt, bound, err, setup, fileVars, modelVars,
                   evalVars, payload, pipeArg, target, prof, latencies,
                   start_time, warmCalls, timedCalls, inWindow, stats, now,
                   measured, seenPayloads, improvement, inFlight, calls>>

\* start_time = perf_counter()
TimedStart ==
    /\ pc = "t_start"
    /\ i < TimedRuns
    /\ start_time' = now
    /\ inWindow' = 0
    /\ pc' = "call"
    /\ UNCHANGED <<envVars, cell, stmt, bound, err, setup, fileVars, modelVars,
                   evalVars, payload, pipeArg, target, prof, i, latencies,
                   warmCalls, timedCalls, stats, now, measured, seenPayloads,
                   improvement, inFlight, calls>>

\* _ = pipe(...)
TimedCall ==
    /\ pc = "call"
    /\ PipeCall
    /\ timedCalls' = timedCalls + 1
    /\ pc' = "t_end"
    /\ UNCHANGED <<envVars, cell, stmt, bound, err, setup, fileVars, modelVars,
                   evalVars, payload, pipeArg, target, prof, i, latencies,
                   start_time, warmCalls, stats, measured, seenPayloads,
                   improvement>>

\* faulty variant: the operands of the subtraction swapped
LatencySwapped == start_time - now

\* latency = perf_counter() - start_time
Latency == now - start_time

\* latency = perf_counter() - start_time; latencies.append(latency)
TimedEnd ==
    /\ pc = "t_end"
    /\ latencies' = Append(latencies, Latency)
    /\ i' = i + 1
    /\ pc' = "t_start"
    /\ UNCHANGED <<envVars, cell, stmt, bound, err, setup, fileVars, modelVars,
                   evalVars, payload, pipeArg, target, prof, start_time,
                   warmCalls, timedCalls, inWindow, stats, now, measured,
                   seenPayloads, improvement, inFlight, calls>>

\* the timed loop is exhausted
TimedDone ==
    /\ pc = "t_start"
    /\ i = TimedRuns
    /\ pc' = "stats"
    /\ UNCHANGED <<envVars, cell, stmt, bound, err, setup, fileVars, modelVars,
                   evalVars, payload, loopVars, now, measured, seenPayloads,
                   improvement, calls>>

----------------------------------------------------------------------------
(* The run statistics *)

\* s[lo] + ... + s[hi], resp. the sum of the squares, by halves
RECURSIVE SumRange(_, _, _)
SumRange(s, lo, hi) ==
    IF lo > hi THEN 0
    ELSE IF lo = hi THEN s[lo]
    ELSE LET mid == (lo + hi) \div 2
         IN  SumRange(s, lo, mid) + SumRange(s, mid + 1, hi)

RECURSIVE SumSquaresRange(_, _, _)
SumSquaresRange(s, lo, hi) ==
    IF lo > hi THEN 0
    ELSE IF lo = hi THEN s[lo] * s[lo]
    ELSE LET mid == (lo + hi) \div 2
         IN  SumSquaresRange(s, lo, mid) + SumSquaresRange(s, mid + 1, hi)

\* how many entries of s are below v, resp. not above v
CountBelow(s, v) == Cardinality({k \in 1..Len(s) : s[k] < v})
CountUpTo(s, v) == Cardinality({k \in 1..Len(s) : s[k] <= v})

\* element k (from 1) of s in ascending order
KthSmallest(s, k) ==
    CHOOSE v \in {s[j] : j \in 1..Len(s)} :
        CountBelow(s, v) < k /\ k <= CountUpTo(s, v)

\* faulty variant: the 0-based virtual index used as if it were 1-based
ScaledPercentileShifted(s, q, scale) ==
    LET n  == Len(s)
        h  == (n - 1) * q
        lo == h \div 100 + 1
        fr == h % 100
        a  == KthSmallest(s, lo + 1)
        b  == IF lo + 2 <= n THEN KthSmallest(s, lo + 2) ELSE a
    IN  (scale * (100 * a + fr * (b - a))) \div 100

\* np.percentile(s, q) with the default linear interpolation, times scale:
\* the virtual index (n - 1) * q / 100 lies between two order statistics
ScaledPercentile(s, q, scale) ==
    LET n  == Len(s)
        h  == (n - 1) * q
        lo == h \div 100
        fr == h % 100
        a  == KthSmallest(s, lo + 1)
        b  == IF lo + 2 <= n THEN KthSmallest(s, lo + 2) ELSE a
    IN  (scale * (100 * a + fr * (b - a))) \div 100

\* 1000 * np.percentile(latencies, 95)
TimeP95Ms(s) == ScaledPercentile(s, Percentile, MsPerSecond)

\* 1000 * np.mean(latencies), as a fraction
TimeAvgMs(s) == <<MsPerSecond * SumRange(s, 1, Len(s)), Len(s)>>

\* 1000 * np.std(latencies), as the scale and the variance it is the root of:
\* time_std_ms = scale * sqrt(num / den)
TimeStdMs(s) ==
    LET n == Len(s)
        t == SumRange(s, 1, n)
    IN  <<MsPerSecond, n * SumSquaresRange(s, 1, n) - t * t, n * n>>

\* time_avg_ms, time_std_ms, time_p95_ms
ComputeStats ==
    /\ pc = "stats"
    /\ stats' = [n |-> Len(latencies), avg |-> TimeAvgMs(latencies),
                 std |-> TimeStdMs(latencies), p95 |-> TimeP95Ms(latencies)]
    /\ pc' = "return"
    /\ UNCHANGED <<envVars, cell, stmt, bound, err, setup, fileVars, modelVars,
                   evalVars, payload, pipeArg, target, prof, i, latencies,
                   start_time, warmCalls, timedCalls, inWindow, now, measured,
                   seenPayloads, improvement, inFlight, calls>>

\* return f"P95 latency (ms) - ...", time_p95_ms: the result is bound to the
\* target of the assignment and the frame of measure_latency is dropped
Return ==
    /\ pc = "return"
    /\ measured' = [measured EXCEPT ![target] = stats]
    /\ pipeArg' = "" /\ target' = "" /\ prof' = 0 /\ i' = 0
    /\ latencies' = <<>>
    /\ start_time' = 0
    /\ stats' = NoStats
    /\ Completes
    /\ UNCHANGED <<envVars, setup, fileVars, modelVars, evalVars, payload,
                   warmCalls, timedCalls, inWindow, now, seenPayloads,
                   improvement, inFlight, calls>>

\* round(num / den, 2) in hundredths: the nearest, a tie to the even one
Round2(num, den) ==
    LET x == 100 * num
        q == x \div den
        r == x % den
    IN  IF 2 * r > den THEN q + 1
        ELSE IF 2 * r < den THEN q
        ELSE IF q % 2 = 0 THEN q ELSE q + 1

\* faulty variant: the averages divided instead of the P95 values (both averages
\* are over the same number of samples)
ImprovementFactorOfAverages(base, opt) == Round2(base.avg[1], opt.avg[1])

\* round(vanilla_model[1] / optimized_model[1], 2)
ImprovementFactor(base, opt) == Round2(base.p95, opt.p95)

\* print(f"Improvement through optimization: {...}x")
PrintImprovement ==
    /\ AtStmt("print_improvement")
    /\ improvement' = Append(improvement,
                         ImprovementFactor(measured[Cur.a[1]], measured[Cur.a[2]]))
    /\ Completes
    /\ UNCHANGED <<envVars, setup, fileVars, modelVars, evalVars, payload,
                   loopVars, now, measured, seenPayloads, calls>>

----------------------------------------------------------------------------
Next ==
    \/ NameError
    \/ Plain
    \/ AssignPayload
    \/ AssertCuda
    \/ AssertDevice
    \/ AssertVersion
    \/ FromTransformers
    \/ SaveModel
    \/ MakeOptConfig
    \/ OptimizerExport
    \/ QuantizerExport
    \/ GetSize
    \/ LoadModel
    \/ MakePipeline
    \/ LoadMetric
    \/ LoadDataset
    \/ SelectSubset
    \/ MapStart
    \/ EvaluateCall
    \/ MapDone
    \/ MetricCompute
    \/ PrintAccuracy
    \/ MeasureStart
    \/ PipeDispatch
    \/ WarmUpCall
    \/ WarmUpDone
    \/ TimedStart
    \/ TimedCall
    \/ TimedEnd
    \/ TimedDone
    \/ ComputeStats
    \/ Return
    \/ PrintImprovement

Spec == Init /\ [][Next]_vars

----------------------------------------------------------------------------
(* Properties *)

InMeasurement == pc \in {"warmup", "t_start", "call", "t_end", "stats", "return"}

\* C1: when the statistics are computed, latencies holds exactly 300
\* entries, one per timed call and in call order, and none of the 10 warm-up
\* calls has contributed one: entry k is the latency of call 10 + k, and
\* during the warm-up the list is empty.
C1_SamplesAtStatistics ==
    /\ pc = "warmup" => latencies = <<>>
    /\ pc = "stats" =>
         /\ Len(latencies) = 300
         /\ timedCalls = 300
         /\ warmCalls = 10
         /\ \A k \in 1..Len(latencies) : latencies[k] = Duration(prof, 10 + k)

C1_Witness == pc = "stats" /\ Len(latencies) = 300 /\ warmCalls = 10

\* C2: every recorded latency is the clock after minus the clock before
\* exactly one pipe call: a timed call starts right after start_time is
\* taken, with no call since; an entry is appended only after exactly one
\* call since start_time, and is that call's duration; no timed call is left
\* outside an interval; every recorded latency is >= 0.
C2_OneCallPerInterval ==
    /\ [](InMeasurement =>
            /\ \A k \in 1..Len(latencies) : latencies[k] >= 0
            /\ timedCalls = Len(latencies) + (IF pc = "t_end" THEN 1 ELSE 0)
            /\ pc = "call" => inWindow = 0 /\ start_time = now
            /\ pc = "t_end" => inWindow = 1 /\ start_time <= now)
    /\ [][Len(latencies') > Len(latencies) =>
            /\ pc = "t_end"
            /\ inWindow = 1
            /\ latencies' = Append(latencies, now - start_time)
            /\ now - start_time = Duration(prof, warmCalls + timedCalls)]_vars

C2_Witness == pc = "t_end" /\ inWindow = 1 /\ Len(latencies) >= 1 /\ now > start_time

\* C3: the P95 returned by measure_latency, in milliseconds, compared with the
\* 300 samples in milliseconds: it lies between the smallest and the largest
\* sample, at least 285 samples are <= it (it is >= the 285th smallest), at
\* most 285 are < it (it is <= the 286th smallest), and at most 15 are > it.
C3_P95WithinOrderStatistics ==
    pc = "return" =>
        LET P == stats.p95
            ms(k) == 1000 * latencies[k]
            K == 1..Len(latencies)
        IN  /\ Len(latencies) = 300
            /\ \E k \in K : ms(k) <= P
            /\ \E k \in K : ms(k) >= P
            /\ Cardinality({k \in K : ms(k) <= P}) >= 285
            /\ Cardinality({k \in K : ms(k) < P}) <= 285
            /\ Cardinality({k \in K : ms(k) > P}) <= 15

\* the P95 lies strictly between two different samples
C3_Witness ==
    /\ pc = "return"
    /\ \E k \in 1..Len(latencies) : 1000 * latencies[k] < stats.p95
    /\ Cardinality({k \in 1..Len(latencies) : 1000 * latencies[k] > stats.p95}) = 15

\* C4: every call of evaluate made so far has queried two pipelines, the
\* baseline and the optimized one, once each with the example's own question
\* and context, and has returned a row carrying the example's id three
\* times; the lists handed to metric.compute are as long as the dataset and
\* carry the same id at every index.
C4_EvaluateQueriesBothPipelines ==
    /\ Len(qaLog) = 2 * evalIdx
    /\ Len(result) = evalIdx
    /\ \A k \in 1..evalIdx :
         /\ qaLog[2 * k - 1].pipe # qaLog[2 * k].pipe
         /\ \A j \in {2 * k - 1, 2 * k} :
              /\ qaLog[j].ex = dataset[k].id
              /\ qaLog[j].question = dataset[k].question
              /\ qaLog[j].context = dataset[k].context
         /\ result[k].reference.id = dataset[k].id
         /\ result[k].default.id = dataset[k].id
         /\ result[k].optimized.id = dataset[k].id
    /\ \A k \in 1..Len(computed) :
         /\ Len(computed[k].predictions) = Len(dataset)
         /\ computed[k].predictions = computed[k].references

\* C5: a model loaded with file_name="model-optimized.onnx" comes from a
\* location optimizer.export has written, and is what that file holds.
C5_LoadsWhatExportWrote ==
    modelVar.file = "model-optimized.onnx" =>
        /\ [dir |-> modelVar.dir, file |-> modelVar.file] \in exported
        /\ modelVar.content = files[modelVar.file]

\* C6: every model file of onnx/ that a step has read was written by an
\* earlier step of the same run.
C6_ReadsFollowWrites == \A r \in reads : r.fresh

\* C7: no statement of the run reads a name that no earlier statement bound.
C7_NoUnboundName == \A k \in 1..Len(err) : err[k].kind # "NameError"

\* v is a newer release than w, compared number by number
NewerRelease(v, w) ==
    \/ v[1] > w[1]
    \/ v[1] = w[1] /\ v[2] > w[2]
    \/ v[1] = w[1] /\ v[2] = w[2] /\ v[3] > w[3]

\* C8: the version assertion passes exactly for the releases newer than
\* 1.11.1: it fails for 1.11.1 and for every older release.
C8_VersionAssertion ==
    setup.version # <<>> =>
        ((\A k \in 1..Len(err) : err[k].ln # 69)
            <=> NewerRelease(setup.version, <<1, 11, 1>>))

\* the setup assertions all held: the conditions as the code evaluates them
SetupHeld ==
    /\ "CUDAExecutionProvider" \in setup.providers
    /\ setup.device = "GPU"
    /\ setup.version # <<>>
    /\ StrGreater(VersionString(setup.version), MinVersionLiteral)

\* a step after the setup cell of notebook 1 has run
PastSetup ==
    nb = 1 /\ (cell > 2 \/ pc = "done" \/ written # {} \/ modelVar # NoModel)

AssertionFailed == \E k \in 1..Len(err) : err[k].kind = "AssertionError"

\* C9 as stated: in notebook 1 no step after the setup cell runs unless the
\* three assertions held, and a failed assertion stops the run in the setup
\* cell with no model file written.
C9_SetupGuardsTheRun ==
    /\ PastSetup => SetupHeld
    /\ nb = 1 /\ AssertionFailed => pc = "halted" /\ cell = 2 /\ written = {}

\* C9 as amended: the same, for a run with Run All, which stops at the
\* first error.
C9_SetupGuardsRunAll ==
    runAll =>
        /\ PastSetup => SetupHeld
        /\ nb = 1 /\ AssertionFailed => pc = "halted" /\ cell = 2 /\ written = {}

C9_Witness == runAll /\ nb = 1 /\ SetupHeld /\ "model-optimized.onnx" \in written

\* C10: the printed improvement factor f (in hundredths) is the baseline P95
\* divided by the optimized P95, rounded to two decimals (the nearest
\* hundredth, a tie to the even one); it is >= 1 whenever the optimized P95 is
\* <= the baseline P95, and < 1 only if the optimized P95 is larger.
C10_ImprovementFactor ==
    \A k \in 1..Len(improvement) :
        LET f == improvement[k]
            b == measured["vanilla_model"].p95
            o == measured[IF nb = 1 THEN "optimized_model" ELSE "quantized_model"].p95
            d == 100 * b - f * o
        IN  /\ o > 0
            /\ 2 * d <= o /\ -2 * d <= o
            /\ (2 * d = o \/ -2 * d = o) => f % 2 = 0
            /\ o <= b => f >= 100
            /\ f < 100 => o > b

\* a printed factor below 1: the optimized pipeline was the slower one
C10_Witness ==
    /\ Len(improvement) = 1
    /\ improvement[1] < 100
    /\ measured["optimized_model"].p95 > measured["vanilla_model"].p95

\* C11: the accuracy evaluation of notebook 1 maps evaluate over the
\* validation split of squad_v2 and every metric.compute uses the squad_v2
\* metric.
C11_EvaluatesSquadV2 ==
    nb = 1 =>
        /\ pc = "map" => dataset = Validation("squad_v2")
        /\ \A k \in 1..Len(computed) : computed[k].metric = "squad_v2"

\* the optimization the text of the notebooks describes
Fp16GpuOptimization == {"level99", "gpu", "fp16"}

\* C12: in both notebooks the optimization configuration enables all graph
\* optimizations, the GPU optimizations and fp16, and the optimized pipeline
\* the evaluation queries wraps the converted model with exactly that
\* optimization applied.
C12_Fp16GpuOptimizedModel ==
    /\ "optimization_config" \in bound => optConfig = Fp16GpuOptimization
    /\ (pc = "map" /\ "optimized_qa" \in bound) =>
          pipes["optimized_qa"].content =
              Append(ConvertedModel.content, Fp16GpuOptimization)

\* C13: within one measure_latency call the order is: 10 warm-up calls, all
\* returned before the first timestamp; then 300 times start timestamp, one
\* pipe call, end timestamp and append; then the statistics, over 300
\* entries.  No call is made outside a timing window once the first
\* timestamp has been taken.
C13_CallOrder ==
    /\ [](InMeasurement =>
            /\ pc = "warmup" =>
                 /\ warmCalls = i /\ i <= 10
                 /\ timedCalls = 0 /\ latencies = <<>> /\ start_time = 0
            /\ pc # "warmup" => warmCalls = 10
            /\ pc \in {"t_start", "call"} =>
                 timedCalls = i /\ Len(latencies) = i /\ i <= 300
            /\ pc = "call" /\ inFlight = <<>> => start_time = now
            /\ pc = "t_end" =>
                 timedCalls = i + 1 /\ Len(latencies) = i /\ inFlight = <<>>
            /\ pc \in {"stats", "return"} =>
                 timedCalls = 300 /\ Len(latencies) = 300 /\ inFlight = <<>>)
    /\ [][/\ Len(inFlight') > Len(inFlight) =>
               \/ pc = "warmup" /\ start_time = 0 /\ timedCalls = 0
               \/ pc = "call" /\ warmCalls = 10 /\ start_time = now
          /\ (start_time' # start_time /\ InMeasurement') =>
               pc = "t_start" /\ pc' = "call" /\ warmCalls = 10
                              /\ inFlight = <<>>
          /\ timedCalls' > timedCalls => pc = "call" /\ pc' = "t_end"
          /\ Len(latencies') > Len(latencies) => pc = "t_end" /\ pc' = "t_start"
          /\ (stats' # stats /\ stats' # NoStats) =>
               pc = "stats" /\ stats'.n = 300]_vars

\* the last timed call is about to be made
C13_Witness ==
    pc = "call" /\ i = 299 /\ warmCalls = 10 /\ timedCalls = 299 /\ inFlight = <<>>

\* the pipeline measured first and the variable its result is bound to
BaselinePipe == IF nb = 1 THEN "vanilla_qa" ELSE "vanilla_clx"

\* C14: at most one pipeline call is in flight at any moment, and it is a
\* call of the pipeline being measured; while the baseline is measured no
\* other pipeline has been called, and when the second measurement makes its
\* first call all 310 calls of the baseline have returned and the statistics
\* of the baseline are computed and bound.
C14_MeasurementsDoNotOverlap ==
    /\ Len(inFlight) <= 1
    /\ inFlight # <<>> => InMeasurement /\ inFlight[1] = pipeArg
    /\ \A p \in PipeNames : calls[p] > 0 /\ p # BaselinePipe =>
          /\ calls[BaselinePipe] = 310
          /\ measured["vanilla_model"].n = 300
    /\ (inFlight # <<>> /\ inFlight[1] # BaselinePipe) =>
          /\ calls[BaselinePipe] = 310
          /\ measured["vanilla_model"].n = 300
    /\ (InMeasurement /\ pipeArg = BaselinePipe) =>
          \A p \in PipeNames \ {BaselinePipe} : calls[p] = 0

\* the first warm-up call of the second measurement is in flight
C14_Witness ==
    /\ inFlight = <<"optimized_qa">>
    /\ calls["optimized_qa"] = 0
    /\ calls["vanilla_qa"] = 310

\* C15: in notebook 1 every call measure_latency makes, of either pipeline,
\* receives the same (question, context) pair, the one assigned on lines
\* 418-419; a completed run has made 620 such calls, 310 per pipeline.
C15_IdenticalPayload ==
    nb = 1 =>
        /\ \A c \in seenPayloads : c.args = <<PayloadQA[1], PayloadQA[2]>>
        /\ pc = "done" =>
             /\ calls["vanilla_qa"] + calls["optimized_qa"] = 620
             /\ {c.pipe : c \in seenPayloads} = {"vanilla_qa", "optimized_qa"}

C15_Witness ==
    /\ nb = 1 /\ pc = "done"
    /\ calls["vanilla_qa"] = 310 /\ calls["optimized_qa"] = 310
    /\ Cardinality(seenPayloads) = 2

\* C16: a notebook that has been executed to its end has printed one
\* retained-accuracy line, computed from the two results metric.compute
\* returned in this run (over the rows of result) and from no literal.
C16_AccuracyFromMetricResults ==
    pc = "done" =>
        /\ Len(accOut) = 1
        /\ Len(computed) = 2
        /\ accOut[1].from = {computed[1].var, computed[2].var}
        /\ accOut[1].literals = <<>>
        /\ \A k \in 1..2 : Len(computed[k].predictions) = Len(dataset)

\* C17: a step changes at most one model file, the one it is told to write;
\* an export writes a file other than the one it reads and leaves its input
\* as it was; once save_pretrained has written model.onnx the file keeps
\* that content to the end of the run.
C17_ExportsKeepTheirInput ==
    /\ []("model.onnx" \in written => files["model.onnx"] = ConvertedModel.content)
    /\ [][files' # files =>
            /\ pc = "stmt"
            /\ Cur.op \in {"save_model", "optimize", "quantize"}
            /\ LET out == Cur.a[Len(Cur.a)] IN
                 /\ \A f \in ModelFiles \ {out} : files'[f] = files[f]
                 /\ written' = written \cup {out}
            /\ Cur.op = "optimize" =>
                 Cur.a = <<"model.onnx", "model-optimized.onnx">>
            /\ Cur.op = "quantize" =>
                 Cur.a = <<"model-optimized.onnx", "model-quantized.onnx">>]_vars

\* both exports of a run have written, and model.onnx is as saved
C17_Witness ==
    /\ {"model.onnx", "model-quantized.onnx"} \subseteq written
    /\ files["model.onnx"] = ConvertedModel.content
    /\ Len(files["model-quantized.onnx"]) >= 2

====
